---- MODULE Spec2Model ----
(***************************************************************************)
(* The authenticated relay of inventory-uploader (proxy-server.js and its  *)
(* earlier variant): an Express application with the middleware chain      *)
(* cors -> express.json -> /api handler.  One connection carries one       *)
(* request at a time; a request is followed from its arrival to the        *)
(* response written to the client.                                         *)
(***************************************************************************)
EXTENDS Integers, Sequences, FiniteSets, TLC

----------------------------------------------------------------------------
(* Bounds of the model *)

\* number of requests the process receives during one run
MaxRequests == 2

\* the client connections of the sequential specification
Conns == {1}

----------------------------------------------------------------------------
(* Program constants *)

PORT == 4000
BACKEND_URL == "http://localhost:8000"
BACKEND_URL_OLD == "https://walis-api-p2bueaisoa-uc.a.run.app"
CORS_ORIGIN == "http://localhost:3000"

\* the two versions of the relay found in the repository
Versions == {"proxy-server.js", "part_002"}

----------------------------------------------------------------------------
(* Generic helpers *)

Undefined == <<>>
Some(x) == <<x>>
IsDefined(o) == o # <<>>
The(o) == o[1]

\* String.prototype.toLowerCase on the header names of the model
Lower(name) ==
    CASE name = "Host" -> "host"
      [] name = "HOST" -> "host"
      [] name = "Authorization" -> "authorization"
      [] name = "AUTHORIZATION" -> "authorization"
      [] name = "Content-Type" -> "content-type"
      [] name = "Content-Length" -> "content-length"
      [] name = "Origin" -> "origin"
      [] name = "X-Trace" -> "x-trace"
      [] OTHER -> name

\* decimal rendering of a byte count
DecStr(n) ==
    LET d == <<"0", "1", "2", "3", "4", "5", "6", "7", "8", "9">>
    IN IF n < 10 THEN d[n + 1] ELSE d[(n \div 10) + 1] \o d[(n % 10) + 1]

----------------------------------------------------------------------------
(* JavaScript objects with string keys: insertion-ordered key/value pairs *)

KV(k, v) == [k |-> k, v |-> v]

RECURSIVE ObjHas(_, _)
ObjHas(o, k) ==
    IF o = <<>> THEN FALSE
    ELSE IF Head(o).k = k THEN TRUE ELSE ObjHas(Tail(o), k)

RECURSIVE ObjGet(_, _)
\* o[k]; Undefined when the key is absent
ObjGet(o, k) ==
    IF o = <<>> THEN Undefined
    ELSE IF Head(o).k = k THEN Some(Head(o).v) ELSE ObjGet(Tail(o), k)

RECURSIVE ObjOmit(_, _)
\* the rest of o in  const { k, ...rest } = o
ObjOmit(o, k) ==
    IF o = <<>> THEN <<>>
    ELSE IF Head(o).k = k THEN ObjOmit(Tail(o), k)
         ELSE <<Head(o)>> \o ObjOmit(Tail(o), k)

RECURSIVE ObjSet(_, _, _)
\* { ...o, k: v }: an existing key keeps its place and takes the new value
ObjSet(o, k, v) ==
    IF o = <<>> THEN <<KV(k, v)>>
    ELSE IF Head(o).k = k THEN <<KV(k, v)>> \o Tail(o)
         ELSE <<Head(o)>> \o ObjSet(Tail(o), k, v)

----------------------------------------------------------------------------
(* JSON.  A value is a record [t, s, kids]: t its type, s the lexeme of a   *)
(* scalar, kids the members of an object (k the key) or the elements of an *)
(* array (k empty).                                                        *)

JNull == [t |-> "null", s |-> "", kids |-> <<>>]
JBool(b) == [t |-> "bool", s |-> b, kids |-> <<>>]
JNum(n) == [t |-> "number", s |-> n, kids |-> <<>>]
JStr(x) == [t |-> "string", s |-> x, kids |-> <<>>]
JObj(members) == [t |-> "object", s |-> "", kids |-> members]
JArr(elems) == [t |-> "array", s |-> "", kids |-> elems]
\* the JavaScript number Infinity, which no JSON text denotes
JInfinity == [t |-> "number", s |-> "Infinity", kids |-> <<>>]
\* a text that is not JSON
NotJson == [t |-> "invalid", s |-> "", kids |-> <<>>]

\* The value a text denotes by the JSON grammar (numbers are exact), on the
\* texts of the model
JsonValue(text) ==
    CASE text = "{\"a\":1}" -> JObj(<<KV("a", JNum("1"))>>)
      [] text = "{ \"a\" : 1 }" -> JObj(<<KV("a", JNum("1"))>>)
      [] text = "[1,2]" -> JArr(<<KV("", JNum("1")), KV("", JNum("2"))>>)
      [] text = "[1, 2]" -> JArr(<<KV("", JNum("1")), KV("", JNum("2"))>>)
      [] text = "\"s\"" -> JStr("s")
      [] text = "42" -> JNum("42")
      [] text = "true" -> JBool("true")
      [] text = "null" -> JNull
      [] text = "{}" -> JObj(<<>>)
      [] text = "{\"n\":1e400}" -> JObj(<<KV("n", JNum("1e400"))>>)
      [] text = "{\"n\":null}" -> JObj(<<KV("n", JNull)>>)
      [] text = "{\"detail\":\"not found\"}" ->
             JObj(<<KV("detail", JStr("not found"))>>)
      [] text = "{\"detail\": \"not found\"}" ->
             JObj(<<KV("detail", JStr("not found"))>>)
      [] text = "{\"rows_processed\":42}" ->
             JObj(<<KV("rows_processed", JNum("42"))>>)
      [] OTHER -> NotJson

RECURSIVE ToJs(_)
\* the JavaScript value of a JSON value: a number beyond the range of a
\* double becomes Infinity
ToJs(v) ==
    IF v.t = "number" /\ v.s = "1e400" THEN JInfinity
    ELSE IF v.kids = <<>> THEN v
    ELSE [v EXCEPT !.kids = [i \in 1..Len(v.kids) |->
                                KV(v.kids[i].k, ToJs(v.kids[i].v))]]

\* JSON.parse: Undefined stands for the SyntaxError it throws
JSONparse(text) ==
    IF JsonValue(text) = NotJson THEN Undefined
    ELSE Some(ToJs(JsonValue(text)))

RECURSIVE JSONstringify(_)
RECURSIVE StringifyKids(_, _)
\* JSON.stringify of a JavaScript value: no white space, a non-finite
\* number is written as null
JSONstringify(v) ==
    CASE v.t = "null" -> "null"
      [] v.t = "bool" -> v.s
      [] v.t = "number" -> IF v.s = "Infinity" THEN "null" ELSE v.s
      [] v.t = "string" -> "\"" \o v.s \o "\""
      [] v.t = "object" -> "{" \o StringifyKids(v.kids, TRUE) \o "}"
      [] v.t = "array" -> "[" \o StringifyKids(v.kids, FALSE) \o "]"

StringifyKids(kids, keyed) ==
    IF kids = <<>> THEN ""
    ELSE (IF keyed THEN "\"" \o Head(kids).k \o "\":" ELSE "")
         \o JSONstringify(Head(kids).v)
         \o (IF Len(kids) > 1 THEN "," ELSE "")
         \o StringifyKids(Tail(kids), keyed)

----------------------------------------------------------------------------
(* Error messages of the failures the handler catches *)

MsgGcloud == "Command failed: gcloud auth print-identity-token"
MsgNetwork == "request to backend failed, reason: connect ECONNREFUSED"
MsgBadJson == "invalid json response body, reason: Unexpected token"
MsgAborted == "Premature close"
ErrMsgs == {MsgGcloud, MsgNetwork, MsgBadJson, MsgAborted}

\* the text of { error: msg }
ErrText(msg) == "{\"error\":\"" \o msg \o "\"}"

\* the JSON value of a body the client receives
ClientJson(text) ==
    IF \E m \in ErrMsgs : text = ErrText(m)
    THEN JObj(<<KV("error", JStr(CHOOSE m \in ErrMsgs : text = ErrText(m)))>>)
    ELSE JsonValue(text)

HasErrorField(text) ==
    /\ ClientJson(text).t = "object"
    /\ ObjHas(ClientJson(text).kids, "error")

----------------------------------------------------------------------------
(* Inbound requests *)

Methods == {"GET", "HEAD", "POST", "OPTIONS"}

\* request targets as the pieces of req.originalUrl
BasePath == <<"/api", "/upload">>
Paths == {BasePath, <<"/api", "/api", "/x">>, <<"/api">>,
          <<"/api", "/ping", "?x=1">>, <<"/API", "/ping">>, <<"/health">>}

RECURSIVE Join(_)
Join(pieces) == IF pieces = <<>> THEN "" ELSE Head(pieces) \o Join(Tail(pieces))

\* header lines of the client, before content-type and content-length
BaseHeaders == <<KV("Host", "localhost:4000")>>
HeaderSets ==
    { BaseHeaders,
      <<KV("Host", "localhost:4000"), KV("Authorization", "Basic Y2xpZW50"),
        KV("Origin", "http://localhost:3000")>>,
      <<KV("HOST", "evil.example"), KV("authorization", "Bearer stolen"),
        KV("Origin", "http://evil.example"), KV("X-Trace", "t1")>> }

MultipartBytes == "--b\r\nContent-Disposition: form-data\r\n\r\na,b\r\n--b--"
CtJson == "application/json"
CtJsonUtf8 == "application/json; charset=utf-8"
CtJsonUpper == "Application/JSON"
CtJsonPatch == "application/json-patch+json"
CtMultipart == "multipart/form-data; boundary=b"
CtCsv == "text/csv"

JsonBodies == {"{\"a\":1}", "{ \"a\" : 1 }", "[1, 2]", "\"s\"", "42", "true",
               "null", "{\"n\":1e400}", "{bad", ""}
OtherBodies == {"", "{ \"a\" : 1 }", MultipartBytes}

\* a payload is a content type (Undefined when the header is absent) and
\* the bytes of the body
BasePayload == [ct |-> Some(CtMultipart), body |-> MultipartBytes]
Payloads ==
    {[ct |-> Some(CtJson), body |-> b] : b \in JsonBodies}
    \cup {[ct |-> Some(CtJsonUtf8), body |-> "{ \"a\" : 1 }"]}
    \cup {[ct |-> c, body |-> b] :
            c \in {Undefined, Some(CtMultipart), Some(CtCsv),
                   Some(CtJsonUpper), Some(CtJsonPatch)},
            b \in OtherBodies}

RawHeaders(hs, pl) ==
    hs \o (IF IsDefined(pl.ct) THEN <<KV("Content-Type", The(pl.ct))>> ELSE <<>>)
       \o (IF pl.body # "" THEN <<KV("Content-Length", DecStr(Len(pl.body)))>>
           ELSE <<>>)

MkInbound(m, path, hs, pl) ==
    [method |-> m, originalUrl |-> path, rawHeaders |-> RawHeaders(hs, pl),
     body |-> pl.body]

Inbounds ==
    {MkInbound(m, BasePath, hs, pl) :
        m \in Methods, hs \in HeaderSets, pl \in Payloads}
    \cup {MkInbound(m, path, BaseHeaders, BasePayload) :
            m \in {"GET", "POST"}, path \in Paths}

----------------------------------------------------------------------------
(* The libraries the relay is built on, as far as the relay uses them *)

\* headers of which Node's HTTP parser keeps the first occurrence only
KeepFirst == {"host", "authorization", "content-type", "content-length"}

RECURSIVE NodeHeaders(_, _)
\* req.headers: header names in lower case; acc accumulates the object
NodeHeaders(raw, acc) ==
    IF raw = <<>> THEN acc
    ELSE LET k == Lower(Head(raw).k)
             v == Head(raw).v
         IN IF ~ObjHas(acc, k) THEN NodeHeaders(Tail(raw), Append(acc, KV(k, v)))
            ELSE IF k \in KeepFirst THEN NodeHeaders(Tail(raw), acc)
            ELSE NodeHeaders(Tail(raw),
                             ObjSet(acc, k, The(ObjGet(acc, k)) \o ", " \o v))

\* String.prototype.includes('application/json') on the content types of
\* the model (case-sensitive substring test)
IncludesAppJson(ct) == ct \in {CtJson, CtJsonUtf8, CtJsonPatch}

\* type-is: the media type, without parameters and in any letter case, is
\* application/json
TypeIsJson(ct) == ct \in {CtJson, CtJsonUtf8, CtJsonUpper}

\* the first character of the body is '{' or '[' (strict mode of the JSON
\* body parser)
StrictFirstChar(text) ==
    text \in {"{\"a\":1}", "{ \"a\" : 1 }", "[1, 2]", "[1,2]", "{\"n\":1e400}",
              "{bad", "{}"}

RECURSIVE FetchHeaders(_, _)
\* new Headers(init) of node-fetch: every key of init is appended; a name
\* that differs from an earlier one by letter case only adds its value to
\* the list of the earlier name.  acc maps a name to the list of its values.
FetchHeaders(init, acc) ==
    IF init = <<>> THEN acc
    ELSE LET name == Head(init).k
             same == {i \in 1..Len(acc) : Lower(acc[i].k) = Lower(name)}
         IN IF same = {}
            THEN FetchHeaders(Tail(init), Append(acc, KV(name, <<Head(init).v>>)))
            ELSE LET i == CHOOSE j \in same : TRUE
                 IN FetchHeaders(Tail(init),
                       [acc EXCEPT ![i] = KV(@.k, Append(@.v, Head(init).v))])

RECURSIVE HeaderLines(_)
\* the header lines written on the wire: one line per value
HeaderLines(map) ==
    IF map = <<>> THEN <<>>
    ELSE [i \in 1..Len(Head(map).v) |-> KV(Head(map).k, Head(map).v[i])]
         \o HeaderLines(Tail(map))

\* the strings gcloud prints, by number of the invocation
GcloudStdout(n) == <<"eyJhbGciOi.", DecStr(n), "\n">>

\* Buffer.toString().trim()
Trim(pieces) ==
    Join(SelectSeq(pieces, LAMBDA x : x \notin {"\n", " ", "\r\n"}))

\* StripApi as replaceAll('/api', ''): every occurrence is removed
StripApiAll(url) == SelectSeq(url, LAMBDA x : x # "/api")

\* req.originalUrl.replace(/^\/api/, '')
StripApi(url) ==
    IF url # <<>> /\ Head(url) = "/api" THEN Tail(url) ELSE url

\* the mount path '/api' of app.use matches the first path segment in any
\* letter case
MountMatches(url) == url # <<>> /\ Head(url) \in {"/api", "/API"}

----------------------------------------------------------------------------
(* State *)

VARIABLES
    version,      \* the version of the relay that runs
    listening,    \* the process is alive and accepts requests
    pc,           \* per connection: the step its request has reached
    inbound,      \* per connection: the request as the client sent it
    req,          \* per connection: the req object of Express
    res,          \* per connection: the res object, before it is sent
    gcloudExit,   \* per connection: exit statuses of its gcloud invocations
    token,        \* per connection: the token the handler acquired
    fetchPromise, \* per connection: state of the promise fetch returned
    outbound,     \* per connection: the requests issued to the backend
    response,     \* per connection: the response of the backend
    sent,         \* per connection: the responses written to the client
    gcloudCalls,  \* number of gcloud invocations of the process
    arrived,      \* number of requests received by the process
    serial,       \* per connection: the number of its request, by arrival
    hist,         \* per connection: the phases its request went through
    acquiredBy,   \* per gcloud invocation: the number of the request it ran for
    script        \* the state of one run of start_services.sh or of
                  \* stop_services.sh

vars == <<version, listening, pc, inbound, req, res, gcloudExit, token,
          fetchPromise, outbound, response, sent,
          gcloudCalls, arrived, serial, hist, acquiredBy, script>>

\* a res object on which nothing was set
FreshRes == [status |-> 200, ctype |-> Undefined, acao |-> Undefined,
             acac |-> Undefined]

\* the response that leaves when res is ended with this body; by names the
\* code that ended it.  For a HEAD request Express sends the headers of the
\* response and withholds the body: headOnly marks it.
Written(r, method, body, by) ==
    [status |-> r.status, ctype |-> r.ctype, acao |-> r.acao, acac |-> r.acac,
     body |-> body, headOnly |-> (method = "HEAD"), by |-> by]

\* an entry of hist: a phase of the handling, with the number of gcloud
\* invocations the process had made when the phase was entered
Ev(e, n) == [e |-> e, calls |-> n]

\* execSync blocks the event loop of the process until gcloud has exited:
\* while one handler is inside it no callback of the process runs
EventLoopFree == \A d \in DOMAIN pc : pc[d] # "gcloud"

\* start_services.sh before it is run.  env: the commands and files the
\* machine has; waitingFor, attempt: the locals of wait_for_service;
\* launched: the services started in the background, in order; running:
\* those of them that are alive; answered: the services whose probe
\* succeeded; failed: the services for which wait_for_service returned 1;
\* probes: the curl calls of the current or last wait_for_service;
\* returned: its return status; pidFiles: the PID files written; exit: the
\* exit status.
ScriptIdle ==
    [pc |-> "off", env |-> {}, waitingFor |-> "", attempt |-> 0,
     launched |-> <<>>, running |-> {}, answered |-> {}, failed |-> {},
     probes |-> 0, returned |-> Undefined, pidFiles |-> {},
     exit |-> Undefined]

Init ==
    /\ version \in Versions
    /\ listening = TRUE
    /\ pc = [c \in Conns |-> "idle"]
    /\ inbound = [c \in Conns |-> Undefined]
    /\ req = [c \in Conns |-> Undefined]
    /\ res = [c \in Conns |-> FreshRes]
    /\ gcloudExit = [c \in Conns |-> <<>>]
    /\ token = [c \in Conns |-> Undefined]
    /\ fetchPromise = [c \in Conns |-> "none"]
    /\ outbound = [c \in Conns |-> <<>>]
    /\ response = [c \in Conns |-> Undefined]
    /\ sent = [c \in Conns |-> <<>>]
    /\ gcloudCalls = 0
    /\ arrived = 0
    /\ serial = [c \in Conns |-> 0]
    /\ hist = [c \in Conns |-> <<>>]
    /\ acquiredBy = <<>>
    /\ script = ScriptIdle

----------------------------------------------------------------------------
(* Express: writing a response *)

\* res.json(value)
ResJson(r, method, value, by) ==
    IF r.status \in {204, 304}
    THEN Written([r EXCEPT !.ctype = Undefined], method, "", by)
    ELSE Written([r EXCEPT !.ctype = Some("application/json; charset=utf-8")],
                 method, JSONstringify(value), by)

\* res.send(text)
ResSend(r, method, text, by) ==
    IF r.status \in {204, 304}
    THEN Written([r EXCEPT !.ctype = Undefined], method, "", by)
    ELSE Written([r EXCEPT !.ctype = Some("text/html; charset=utf-8")],
                 method, text, by)

\* Catch without the try block around the handler: the rejection is not
\* handled, no response is written and the process exits
CatchRethrows(c, msg) ==
    /\ sent' = sent
    /\ hist' = hist
    /\ pc' = [pc EXCEPT ![c] = "sent"]
    /\ listening' = FALSE

\* Catch without res.status(500): the error body goes out under the status
\* res has at that moment
CatchKeepsStatus(c, msg) ==
    /\ sent' = [sent EXCEPT ![c] =
                  Append(@, ResJson(res[c], The(req[c]).method,
                                    JObj(<<KV("error", JStr(msg))>>), "catch"))]
    /\ hist' = [hist EXCEPT ![c] = Append(@, Ev("Error", gcloudCalls'))]
    /\ pc' = [pc EXCEPT ![c] = "sent"]
    /\ listening' = listening

\* catch (err) { res.status(500).json({ error: err.message }) }
Catch(c, msg) ==
    /\ sent' = [sent EXCEPT ![c] =
                  Append(@, ResJson([res[c] EXCEPT !.status = 500],
                                    The(req[c]).method,
                                    JObj(<<KV("error", JStr(msg))>>), "catch"))]
    /\ hist' = [hist EXCEPT ![c] = Append(@, Ev("Error", gcloudCalls'))]
    /\ pc' = [pc EXCEPT ![c] = "sent"]
    /\ listening' = listening

----------------------------------------------------------------------------
(* The relay handler: construction of the outbound request *)

BackendUrl(v) == IF v = "proxy-server.js" THEN BACKEND_URL ELSE BACKEND_URL_OLD

\* BodyCurrent with the test for HEAD left out
BodyCurrentNoHead(rq) ==
    IF rq.method # "GET"
    THEN LET contentType == ObjGet(rq.headers, "content-type")
         IN IF IsDefined(contentType) /\ IncludesAppJson(The(contentType))
            THEN Some(JSONstringify(The(rq.body)))
            ELSE Some(rq.stream)
    ELSE Undefined

\* proxy-server.js: the body passed to fetch.  Undefined: no body; the
\* stream branch (body = req) sends the bytes of the inbound stream that
\* nobody has read yet.
BodyCurrent(rq) ==
    IF rq.method # "GET" /\ rq.method # "HEAD"
    THEN LET contentType == ObjGet(rq.headers, "content-type")
         IN IF IsDefined(contentType) /\ IncludesAppJson(The(contentType))
            THEN Some(JSONstringify(The(rq.body)))
            ELSE Some(rq.stream)
    ELSE Undefined

\* part_002: the body passed to fetch
BodyOld(rq) ==
    IF rq.method \in {"GET", "HEAD"} THEN Undefined
    ELSE Some(JSONstringify(The(rq.body)))

BodyFor(v, rq) == IF v = "proxy-server.js" THEN BodyCurrent(rq) ELSE BodyOld(rq)

\* InitHeaders without the spread of the inbound headers
InitHeadersOnlyAuth(rq, tok) == <<KV("Authorization", "Bearer " \o tok)>>

\* InitHeaders without the destructuring that drops host
InitHeadersKeepsHost(rq, tok) ==
    ObjSet(rq.headers, "Authorization", "Bearer " \o tok)

\* const { host, ...headers } = req.headers;
\* { ...headers, 'Authorization': `Bearer ${token}` }
InitHeaders(rq, tok) ==
    ObjSet(ObjOmit(rq.headers, "host"), "Authorization", "Bearer " \o tok)

\* the request fetch issues
Outbound(v, rq, tok) ==
    [method |-> rq.method,
     url |-> BackendUrl(v) \o Join(StripApi(rq.originalUrl)),
     headers |-> HeaderLines(FetchHeaders(InitHeaders(rq, tok), <<>>)),
     body |-> BodyFor(v, rq)]

----------------------------------------------------------------------------
(* Backend behaviour *)

BackendStatuses == {200, 204, 404}
BackendTypes == {Undefined, Some(CtJson), Some(CtCsv)}
BackendBodies == {"", "{\"detail\": \"not found\"}", "{\"rows_processed\":42}",
                  "{\"n\":1e400}", "a,b\n1,2"}

----------------------------------------------------------------------------
(* Actions *)

\* a client sends a request on connection c
Arrive(c, in) ==
    /\ listening
    /\ EventLoopFree
    /\ pc[c] = "idle"
    /\ arrived < MaxRequests
    /\ arrived' = arrived + 1
    /\ serial' = [serial EXCEPT ![c] = arrived + 1]
    /\ hist' = [hist EXCEPT ![c] = <<Ev("Received", gcloudCalls)>>]
    /\ inbound' = [inbound EXCEPT ![c] = Some(in)]
    /\ req' = [req EXCEPT ![c] =
                 Some([method |-> in.method, originalUrl |-> in.originalUrl,
                       headers |-> NodeHeaders(in.rawHeaders, <<>>),
                       stream |-> in.body, body |-> Undefined])]
    /\ res' = [res EXCEPT ![c] = FreshRes]
    /\ pc' = [pc EXCEPT ![c] = "cors"]
    /\ UNCHANGED <<gcloudExit, fetchPromise, version, listening, token,
                   outbound, response, sent, gcloudCalls, acquiredBy,
                   script>>

\* Cors with origin: true: the Origin of the request is sent back
CorsReflects(c) ==
    /\ pc[c] = "cors"
    /\ EventLoopFree
    /\ LET r == [res[c] EXCEPT !.acao = ObjGet(The(req[c]).headers, "origin"),
                               !.acac = Some("true")]
       IN /\ res' = [res EXCEPT ![c] = r]
          /\ IF The(req[c]).method = "OPTIONS"
             THEN /\ sent' = [sent EXCEPT ![c] =
                       Append(@, Written([r EXCEPT !.status = 204],
                                         "OPTIONS", "", "cors"))]
                  /\ hist' = [hist EXCEPT ![c] =
                                Append(@, Ev("Sent", gcloudCalls))]
                  /\ pc' = [pc EXCEPT ![c] = "sent"]
             ELSE /\ sent' = sent
                  /\ hist' = hist
                  /\ pc' = [pc EXCEPT ![c] = "json"]
    /\ UNCHANGED <<gcloudExit, fetchPromise, version, listening, inbound,
                   req, token, outbound, response, gcloudCalls, arrived,
                   serial, acquiredBy, script>>

\* app.use(cors({ origin: 'http://localhost:3000', credentials: true }))
Cors(c) ==
    /\ pc[c] = "cors"
    /\ EventLoopFree
    /\ LET r == [res[c] EXCEPT !.acao = Some(CORS_ORIGIN), !.acac = Some("true")]
       IN /\ res' = [res EXCEPT ![c] = r]
          /\ IF The(req[c]).method = "OPTIONS"
             THEN /\ sent' = [sent EXCEPT ![c] =
                       Append(@, Written([r EXCEPT !.status = 204],
                                         "OPTIONS", "", "cors"))]
                  /\ hist' = [hist EXCEPT ![c] =
                                Append(@, Ev("Sent", gcloudCalls))]
                  /\ pc' = [pc EXCEPT ![c] = "sent"]
             ELSE /\ sent' = sent
                  /\ hist' = hist
                  /\ pc' = [pc EXCEPT ![c] = "json"]
    /\ UNCHANGED <<gcloudExit, fetchPromise, version, listening, inbound,
                   req, token, outbound, response, gcloudCalls, arrived,
                   serial, acquiredBy,
                   script>>

\* app.use(express.json())
ExpressJson(c) ==
    /\ pc[c] = "json"
    /\ EventLoopFree
    /\ LET rq == The(req[c])
           ct == ObjGet(rq.headers, "content-type")
           hasBody == rq.stream # ""
           parsed == JSONparse(rq.stream)
       IN IF ~hasBody \/ ~IsDefined(ct) \/ ~TypeIsJson(The(ct))
          THEN \* not for this parser: req.body gets the default {}
               /\ req' = [req EXCEPT ![c] = Some([rq EXCEPT !.body = Some(JObj(<<>>))])]
               /\ pc' = [pc EXCEPT ![c] = "route"]
               /\ sent' = sent
               /\ hist' = hist
          ELSE IF StrictFirstChar(rq.stream) /\ IsDefined(parsed)
          THEN \* the stream is read to its end and parsed
               /\ req' = [req EXCEPT ![c] =
                            Some([rq EXCEPT !.body = Some(The(parsed)), !.stream = ""])]
               /\ pc' = [pc EXCEPT ![c] = "route"]
               /\ sent' = sent
               /\ hist' = hist
          ELSE \* SyntaxError with status 400, answered by the error handler
               \* of Express
               /\ req' = [req EXCEPT ![c] = Some([rq EXCEPT !.stream = ""])]
               /\ sent' = [sent EXCEPT ![c] =
                     Append(@, Written([res[c] EXCEPT !.status = 400,
                                          !.ctype = Some("text/html; charset=utf-8")],
                                       rq.method, "SyntaxError", "express.json"))]
               /\ hist' = [hist EXCEPT ![c] =
                             Append(@, Ev("Sent", gcloudCalls))]
               /\ pc' = [pc EXCEPT ![c] = "sent"]
    /\ UNCHANGED <<gcloudExit, fetchPromise, version, listening, inbound,
                   res, token, outbound, response, gcloudCalls, arrived,
                   serial, acquiredBy,
                   script>>

\* no middleware is mounted on the path: Express answers 404
NotFound(c) ==
    /\ pc[c] = "route"
    /\ EventLoopFree
    /\ ~MountMatches(The(req[c]).originalUrl)
    /\ sent' = [sent EXCEPT ![c] =
          Append(@, Written([res[c] EXCEPT !.status = 404,
                               !.ctype = Some("text/html; charset=utf-8")],
                            The(req[c]).method, "Cannot " \o The(req[c]).method,
                            "finalhandler"))]
    /\ hist' = [hist EXCEPT ![c] = Append(@, Ev("Sent", gcloudCalls))]
    /\ pc' = [pc EXCEPT ![c] = "sent"]
    /\ UNCHANGED <<gcloudExit, fetchPromise, version, listening, inbound,
                   req, res, token, outbound, response, gcloudCalls, arrived,
                   serial, acquiredBy,
                   script>>

\* app.use('/api', async (req, res) => ...) is entered and calls execSync:
\* the process waits for gcloud to exit
HandlerStart(c) ==
    /\ pc[c] = "route"
    /\ EventLoopFree
    /\ MountMatches(The(req[c]).originalUrl)
    /\ pc' = [pc EXCEPT ![c] = "gcloud"]
    /\ UNCHANGED <<version, listening, inbound, req, res, gcloudExit, token,
                   fetchPromise, outbound, response, sent, gcloudCalls,
                   arrived, serial, hist, acquiredBy,
                   script>>

\* HandlerNoCredential with the failure of gcloud swallowed: the request is
\* forwarded without a token
HandlerNoCredentialForwards(c) ==
    /\ pc[c] = "gcloud"
    /\ gcloudCalls' = gcloudCalls + 1
    /\ acquiredBy' = Append(acquiredBy, serial[c])
    /\ gcloudExit' = [gcloudExit EXCEPT ![c] = Append(@, 1)]
    /\ outbound' = [outbound EXCEPT ![c] =
                      Append(@, Outbound(version, The(req[c]), "undefined"))]
    /\ fetchPromise' = [fetchPromise EXCEPT ![c] = "pending"]
    /\ hist' = [hist EXCEPT ![c] = Append(@, Ev("Dispatched", gcloudCalls'))]
    /\ pc' = [pc EXCEPT ![c] = "fetch"]
    /\ UNCHANGED <<version, listening, inbound, req, res, token, response,
                   sent, arrived, serial, script>>

\* HandlerNoCredential with a catch block that does not answer: the handler
\* ends and nothing is written
HandlerNoCredentialSilent(c) ==
    /\ pc[c] = "gcloud"
    /\ gcloudCalls' = gcloudCalls + 1
    /\ acquiredBy' = Append(acquiredBy, serial[c])
    /\ gcloudExit' = [gcloudExit EXCEPT ![c] = Append(@, 1)]
    /\ pc' = [pc EXCEPT ![c] = "sent"]
    /\ UNCHANGED <<fetchPromise, version, listening, inbound, req, res, token,
                   outbound, response, sent, hist, arrived, serial, script>>

\* the handler from execSync to the end of its first turn: the gcloud
\* command fails (execSync throws)
HandlerNoCredential(c) ==
    /\ pc[c] = "gcloud"
    /\ gcloudCalls' = gcloudCalls + 1
    /\ acquiredBy' = Append(acquiredBy, serial[c])
    /\ gcloudExit' = [gcloudExit EXCEPT ![c] = Append(@, 1)]
    /\ Catch(c, MsgGcloud)
    /\ UNCHANGED <<fetchPromise, version, inbound, req, res, token, outbound,
                   response, arrived, serial, script>>

\* HandlerDispatch with a token cache: the first token the process got is
\* used for every later request, without a new gcloud invocation
HandlerDispatchCached(c) ==
    /\ pc[c] = "gcloud"
    /\ LET fresh == gcloudCalls = 0
           tok == Trim(GcloudStdout(1))
           rq == The(req[c])
       IN /\ gcloudCalls' = IF fresh THEN 1 ELSE gcloudCalls
          /\ acquiredBy' = IF fresh THEN <<serial[c]>> ELSE acquiredBy
          /\ gcloudExit' = [gcloudExit EXCEPT ![c] = Append(@, 0)]
          /\ token' = [token EXCEPT ![c] = Some(tok)]
          /\ fetchPromise' = [fetchPromise EXCEPT ![c] = "pending"]
          /\ outbound' = [outbound EXCEPT ![c] = Append(@, Outbound(version, rq, tok))]
    /\ hist' = [hist EXCEPT ![c] = @ \o <<Ev("CredentialAcquired", gcloudCalls'),
                                          Ev("Dispatched", gcloudCalls')>>]
    /\ pc' = [pc EXCEPT ![c] = "fetch"]
    /\ UNCHANGED <<version, listening, inbound, req, res, response, sent,
                   arrived, serial, script>>

\* the handler from execSync to its first await: the gcloud command prints
\* a token and fetch is called
HandlerDispatch(c) ==
    /\ pc[c] = "gcloud"
    /\ gcloudCalls' = gcloudCalls + 1
    /\ acquiredBy' = Append(acquiredBy, serial[c])
    /\ LET tok == Trim(GcloudStdout(gcloudCalls + 1))
           rq == The(req[c])
       IN /\ gcloudExit' = [gcloudExit EXCEPT ![c] = Append(@, 0)]
          /\ token' = [token EXCEPT ![c] = Some(tok)]
          /\ fetchPromise' = [fetchPromise EXCEPT ![c] = "pending"]
          /\ outbound' = [outbound EXCEPT ![c] = Append(@, Outbound(version, rq, tok))]
    /\ hist' = [hist EXCEPT ![c] = @ \o <<Ev("CredentialAcquired", gcloudCalls'),
                                          Ev("Dispatched", gcloudCalls')>>]
    /\ pc' = [pc EXCEPT ![c] = "fetch"]
    /\ UNCHANGED <<version, listening, inbound, req, res, response, sent,
                   arrived, serial, script>>

\* FetchRejects with a retry: the rejected call is issued once more
FetchRejectsRetries(c) ==
    /\ pc[c] = "fetch"
    /\ EventLoopFree
    /\ Len(outbound[c]) < 2
    /\ outbound' = [outbound EXCEPT ![c] = Append(@, @[1])]
    /\ UNCHANGED <<gcloudExit, fetchPromise, version, listening, inbound, req,
                   res, token, response, sent, pc, gcloudCalls, arrived,
                   serial, hist, acquiredBy, script>>

\* FetchRejects outside the try block: the rejection is dropped and the
\* client never gets a response
FetchRejectsSilent(c) ==
    /\ pc[c] = "fetch"
    /\ EventLoopFree
    /\ fetchPromise' = [fetchPromise EXCEPT ![c] = "rejected"]
    /\ pc' = [pc EXCEPT ![c] = "sent"]
    /\ UNCHANGED <<gcloudExit, version, listening, inbound, req, res, token,
                   outbound, response, sent, gcloudCalls, arrived, serial,
                   hist, acquiredBy, script>>

\* await fetch(...) rejects: the backend could not be reached
FetchRejects(c) ==
    /\ pc[c] = "fetch"
    /\ EventLoopFree
    /\ fetchPromise' = [fetchPromise EXCEPT ![c] = "rejected"]
    /\ UNCHANGED <<gcloudExit, version, inbound, req, res, token, outbound,
                   response, gcloudCalls, arrived, serial, acquiredBy,
                   script>>
    /\ Catch(c, MsgNetwork)

\* FetchResolves with the status kept in a variable of the module instead of
\* the res of the request: every response under way takes it
FetchResolvesSharedStatus(c, status, ct) ==
    /\ pc[c] = "fetch"
    /\ EventLoopFree
    /\ response' = [response EXCEPT ![c] =
                      Some([status |-> status, ctype |-> ct, body |-> Undefined])]
    /\ fetchPromise' = [fetchPromise EXCEPT ![c] = "resolved"]
    /\ res' = [d \in DOMAIN res |-> [res[d] EXCEPT !.status = status]]
    /\ pc' = [pc EXCEPT ![c] = "read"]
    /\ UNCHANGED <<gcloudExit, version, listening, inbound, req, token,
                   outbound, sent, gcloudCalls, arrived, serial, hist,
                   acquiredBy, script>>

\* FetchResolves without res.status(response.status)
FetchResolvesNoStatus(c, status, ct) ==
    /\ pc[c] = "fetch"
    /\ EventLoopFree
    /\ response' = [response EXCEPT ![c] =
                      Some([status |-> status, ctype |-> ct, body |-> Undefined])]
    /\ fetchPromise' = [fetchPromise EXCEPT ![c] = "resolved"]
    /\ res' = res
    /\ pc' = [pc EXCEPT ![c] = "read"]
    /\ UNCHANGED <<gcloudExit, version, listening, inbound, req, token,
                   outbound, sent, gcloudCalls, arrived, serial, hist,
                   acquiredBy, script>>

\* await fetch(...) resolves with the status line and headers of the
\* backend; the handler copies the status and starts to read the body
FetchResolves(c, status, ct) ==
    /\ pc[c] = "fetch"
    /\ EventLoopFree
    /\ response' = [response EXCEPT ![c] =
                      Some([status |-> status, ctype |-> ct, body |-> Undefined])]
    /\ fetchPromise' = [fetchPromise EXCEPT ![c] = "resolved"]
    /\ res' = [res EXCEPT ![c].status = status]
    /\ pc' = [pc EXCEPT ![c] = "read"]
    /\ UNCHANGED <<gcloudExit, version, listening, inbound, req, token,
                   outbound, sent, gcloudCalls, arrived, serial, hist,
                   acquiredBy, script>>

\* the body of the backend response has no bytes when the request was a
\* HEAD or the status is 204
BodyPossible(method, status, text) ==
    (method = "HEAD" \/ status = 204) => text = ""

\* await response.json() / await response.text() settles with the whole
\* body, and the response is written
BodyArrives(c, text) ==
    /\ pc[c] = "read"
    /\ EventLoopFree
    /\ BodyPossible(The(req[c]).method, The(response[c]).status, text)
    /\ response' = [response EXCEPT ![c] = Some([The(@) EXCEPT !.body = Some(text)])]
    /\ UNCHANGED <<gcloudExit, fetchPromise, version, inbound, req, res,
                   token, outbound, gcloudCalls, arrived, serial, acquiredBy,
                   script>>
    /\ LET contentType == The(response[c]).ctype
           method == The(req[c]).method
       IN IF IsDefined(contentType) /\ IncludesAppJson(The(contentType))
          THEN IF IsDefined(JSONparse(text))
               THEN /\ sent' = [sent EXCEPT ![c] =
                          Append(@, ResJson(res[c], method, The(JSONparse(text)),
                                            "forward"))]
                    /\ hist' = [hist EXCEPT ![c] =
                          @ \o <<Ev("ResponseTranslated", gcloudCalls),
                                 Ev("Sent", gcloudCalls)>>]
                    /\ pc' = [pc EXCEPT ![c] = "sent"]
                    /\ listening' = listening
               ELSE Catch(c, MsgBadJson)
          ELSE /\ sent' = [sent EXCEPT ![c] =
                     Append(@, ResSend(res[c], method, text, "forward"))]
               /\ hist' = [hist EXCEPT ![c] =
                     @ \o <<Ev("ResponseTranslated", gcloudCalls),
                            Ev("Sent", gcloudCalls)>>]
               /\ pc' = [pc EXCEPT ![c] = "sent"]
               /\ listening' = listening

\* BodyAborts with a catch that sends the error body under the status
\* already copied from the backend
BodyAbortsKeepsStatus(c) ==
    /\ pc[c] = "read"
    /\ EventLoopFree
    /\ UNCHANGED <<gcloudExit, fetchPromise, version, inbound, req, res,
                   token, outbound, response, gcloudCalls, arrived, serial,
                   acquiredBy, script>>
    /\ CatchKeepsStatus(c, MsgAborted)

\* the connection to the backend breaks while the body is read
BodyAborts(c) ==
    /\ pc[c] = "read"
    /\ EventLoopFree
    /\ UNCHANGED <<gcloudExit, fetchPromise, version, inbound, req, res,
                   token, outbound, response, gcloudCalls, arrived, serial,
                   acquiredBy,
                   script>>
    /\ Catch(c, MsgAborted)

\* the exchange is over: req and res are dropped
Close(c) ==
    /\ pc[c] = "sent"
    /\ EventLoopFree
    /\ pc' = [pc EXCEPT ![c] = "idle"]
    /\ inbound' = [inbound EXCEPT ![c] = Undefined]
    /\ req' = [req EXCEPT ![c] = Undefined]
    /\ res' = [res EXCEPT ![c] = FreshRes]
    /\ gcloudExit' = [gcloudExit EXCEPT ![c] = <<>>]
    /\ token' = [token EXCEPT ![c] = Undefined]
    /\ fetchPromise' = [fetchPromise EXCEPT ![c] = "none"]
    /\ outbound' = [outbound EXCEPT ![c] = <<>>]
    /\ response' = [response EXCEPT ![c] = Undefined]
    /\ sent' = [sent EXCEPT ![c] = <<>>]
    /\ serial' = [serial EXCEPT ![c] = 0]
    /\ hist' = [hist EXCEPT ![c] = <<>>]
    /\ UNCHANGED <<version, listening, gcloudCalls, arrived, acquiredBy,
                   script>>

Next ==
    \/ \E c \in Conns, in \in Inbounds : Arrive(c, in)
    \/ \E c \in Conns : Cors(c)
    \/ \E c \in Conns : ExpressJson(c)
    \/ \E c \in Conns : NotFound(c)
    \/ \E c \in Conns : HandlerStart(c)
    \/ \E c \in Conns : HandlerNoCredential(c)
    \/ \E c \in Conns : HandlerDispatch(c)
    \/ \E c \in Conns : FetchRejects(c)
    \/ \E c \in Conns, st \in BackendStatuses, ct \in BackendTypes :
          FetchResolves(c, st, ct)
    \/ \E c \in Conns, text \in BackendBodies : BodyArrives(c, text)
    \/ \E c \in Conns : BodyAborts(c)
    \/ \E c \in Conns : Close(c)

Spec == Init /\ [][Next]_vars

\* the gcloud command returns or fails, the promise of fetch settles, and so
\* does the promise of response.json() or response.text()
SpecLive ==
    /\ Spec
    /\ \A c \in Conns :
          /\ WF_vars(HandlerNoCredential(c) \/ HandlerDispatch(c))
          /\ WF_vars(FetchRejects(c)
                       \/ \E st \in BackendStatuses, ct \in BackendTypes :
                             FetchResolves(c, st, ct))
          /\ WF_vars(BodyAborts(c)
                       \/ \E text \in BackendBodies : BodyArrives(c, text))

----------------------------------------------------------------------------
(* Concurrent requests: two client connections are served by the one      *)
(* process, and the callbacks of their requests interleave.                *)

ConcConns == {1, 2}

\* a JSON upload with a client authorization header, a query, a CORS
\* preflight from a foreign origin and a path outside the mount
ConcInbounds ==
    { MkInbound("POST", BasePath,
                <<KV("Host", "localhost:4000"),
                  KV("Authorization", "Basic Y2xpZW50"),
                  KV("Origin", "http://localhost:3000")>>,
                [ct |-> Some(CtJson), body |-> "{ \"a\" : 1 }"]),
      MkInbound("GET", <<"/api", "/ping", "?x=1">>, BaseHeaders, BasePayload),
      MkInbound("OPTIONS", BasePath,
                <<KV("HOST", "evil.example"),
                  KV("authorization", "Bearer stolen"),
                  KV("Origin", "http://evil.example"), KV("X-Trace", "t1")>>,
                BasePayload),
      MkInbound("GET", <<"/health">>, BaseHeaders, BasePayload) }

ConcStatuses == {200, 404}
ConcTypes == {Some(CtJson), Some(CtCsv)}
ConcBodies == {"{\"rows_processed\":42}", "a,b\n1,2"}

InitConc ==
    /\ version \in Versions
    /\ listening = TRUE
    /\ pc = [c \in ConcConns |-> "idle"]
    /\ inbound = [c \in ConcConns |-> Undefined]
    /\ req = [c \in ConcConns |-> Undefined]
    /\ res = [c \in ConcConns |-> FreshRes]
    /\ gcloudExit = [c \in ConcConns |-> <<>>]
    /\ token = [c \in ConcConns |-> Undefined]
    /\ fetchPromise = [c \in ConcConns |-> "none"]
    /\ outbound = [c \in ConcConns |-> <<>>]
    /\ response = [c \in ConcConns |-> Undefined]
    /\ sent = [c \in ConcConns |-> <<>>]
    /\ gcloudCalls = 0
    /\ arrived = 0
    /\ serial = [c \in ConcConns |-> 0]
    /\ hist = [c \in ConcConns |-> <<>>]
    /\ acquiredBy = <<>>
    /\ script = ScriptIdle

NextConc ==
    \/ \E c \in ConcConns, in \in ConcInbounds : Arrive(c, in)
    \/ \E c \in ConcConns : Cors(c)
    \/ \E c \in ConcConns : ExpressJson(c)
    \/ \E c \in ConcConns : NotFound(c)
    \/ \E c \in ConcConns : HandlerStart(c)
    \/ \E c \in ConcConns : HandlerNoCredential(c)
    \/ \E c \in ConcConns : HandlerDispatch(c)
    \/ \E c \in ConcConns : FetchRejects(c)
    \/ \E c \in ConcConns, st \in ConcStatuses, ct \in ConcTypes :
          FetchResolves(c, st, ct)
    \/ \E c \in ConcConns, text \in ConcBodies : BodyArrives(c, text)
    \/ \E c \in ConcConns : BodyAborts(c)
    \/ \E c \in ConcConns : Close(c)

SpecConc == InitConc /\ [][NextConc]_vars

----------------------------------------------------------------------------
(* start_services.sh: one run of the script.  The relay process is not     *)
(* followed here; the script only starts it.                               *)

max_attempts == 30

Services == <<"backend", "proxy", "frontend">>
Commands == {"node", "python3", "curl"}
Files == {"proxy-server.js", "frontend", "backend"}

relayVars == <<version, listening, pc, inbound, req, res, gcloudExit, token,
               fetchPromise, outbound, response, sent, gcloudCalls, arrived,
               serial, hist, acquiredBy>>

InitStart ==
    /\ version = "proxy-server.js"
    /\ listening = FALSE
    /\ pc = [c \in Conns |-> "idle"]
    /\ inbound = [c \in Conns |-> Undefined]
    /\ req = [c \in Conns |-> Undefined]
    /\ res = [c \in Conns |-> FreshRes]
    /\ gcloudExit = [c \in Conns |-> <<>>]
    /\ token = [c \in Conns |-> Undefined]
    /\ fetchPromise = [c \in Conns |-> "none"]
    /\ outbound = [c \in Conns |-> <<>>]
    /\ response = [c \in Conns |-> Undefined]
    /\ sent = [c \in Conns |-> <<>>]
    /\ gcloudCalls = 0
    /\ arrived = 0
    /\ serial = [c \in Conns |-> 0]
    /\ hist = [c \in Conns |-> <<>>]
    /\ acquiredBy = <<>>
    /\ \E env \in SUBSET (Commands \cup Files) :
          script = [ScriptIdle EXCEPT !.pc = "prerequisites", !.env = env]

\* exit n
Exit(sc, n) == [sc EXCEPT !.pc = "exited", !.exit = Some(n)]

\* a service is started in the background, its PID is written to its file
\* and wait_for_service is entered
Launch(sc, svc) ==
    [sc EXCEPT !.launched = Append(@, svc), !.running = @ \cup {svc},
               !.pidFiles = @ \cup {svc \o ".pid"},
               !.waitingFor = svc, !.attempt = 1, !.probes = 0,
               !.returned = Undefined, !.pc = "wait"]

\* the checks for node, python3 and curl
CheckPrerequisites ==
    /\ script.pc = "prerequisites"
    /\ script' = IF Commands \subseteq script.env
                 THEN [script EXCEPT !.pc = "main"]
                 ELSE Exit(script, 1)
    /\ UNCHANGED relayVars

\* main, steps 1 to 4: the directory checks, between them the killing of
\* old processes and the installation of dependencies
MainSetup ==
    /\ script.pc = "main"
    /\ script' = IF Files \subseteq script.env
                 THEN [script EXCEPT !.pc = "step5"]
                 ELSE Exit(script, 1)
    /\ UNCHANGED relayVars

\* main, step 5: uvicorn is started
StartBackend ==
    /\ script.pc = "step5"
    /\ script' = Launch(script, "backend")
    /\ UNCHANGED relayVars

\* ProbeFails with the loop test [ $attempt -le $((max_attempts + 1)) ]
ProbeFailsOneMore ==
    /\ script.pc = "wait"
    /\ script.attempt <= max_attempts + 1
    /\ script' = [script EXCEPT !.attempt = @ + 1, !.probes = @ + 1]
    /\ UNCHANGED relayVars

\* wait_for_service: curl fails, the loop sleeps and counts
ProbeFails ==
    /\ script.pc = "wait"
    /\ script.attempt <= max_attempts
    /\ script' = [script EXCEPT !.attempt = @ + 1, !.probes = @ + 1]
    /\ UNCHANGED relayVars

\* the step of main that follows the wait for svc
After(svc) ==
    CASE svc = "backend" -> "step6"
      [] svc = "proxy" -> "step7"
      [] svc = "frontend" -> "step8"

\* wait_for_service: curl succeeds, the function returns 0 and main goes on
ProbeSucceeds ==
    /\ script.pc = "wait"
    /\ script.attempt <= max_attempts
    /\ script' = [script EXCEPT !.answered = @ \cup {script.waitingFor},
                                !.probes = @ + 1, !.returned = Some(0),
                                !.pc = After(script.waitingFor)]
    /\ UNCHANGED relayVars

\* WaitGivesUp with a warning for the backend as well
WaitGivesUpWarnsOnly ==
    /\ script.pc = "wait"
    /\ script.attempt > max_attempts
    /\ script' = [script EXCEPT !.failed = @ \cup {script.waitingFor},
                                !.returned = Some(1),
                                !.pc = After(script.waitingFor)]
    /\ UNCHANGED relayVars

\* wait_for_service: the loop ends and the function returns 1.  For the
\* backend main exits with 1; for the proxy and the frontend it prints a
\* warning and goes on.
WaitGivesUp ==
    /\ script.pc = "wait"
    /\ script.attempt > max_attempts
    /\ LET sc == [script EXCEPT !.failed = @ \cup {script.waitingFor},
                                !.returned = Some(1)]
       IN script' = IF script.waitingFor = "backend" THEN Exit(sc, 1)
                    ELSE [sc EXCEPT !.pc = After(script.waitingFor)]
    /\ UNCHANGED relayVars

\* main, step 6: node proxy-server.js is started
StartProxy ==
    /\ script.pc = "step6"
    /\ script' = Launch(script, "proxy")
    /\ UNCHANGED relayVars

\* main, step 7: npm start is started
StartFrontend ==
    /\ script.pc = "step7"
    /\ script' = Launch(script, "frontend")
    /\ UNCHANGED relayVars

\* main, step 8: the summary is printed and the script ends
Finish ==
    /\ script.pc = "step8"
    /\ script' = Exit(script, 0)
    /\ UNCHANGED relayVars

\* SIGINT or SIGTERM while the script runs: cleanup kills the processes of
\* the PID files, removes the files and exits with 1
Interrupt ==
    /\ script.pc \notin {"off", "exited"}
    /\ script' = Exit([script EXCEPT !.running = {}, !.pidFiles = {}], 1)
    /\ UNCHANGED relayVars

NextStart ==
    \/ CheckPrerequisites
    \/ MainSetup
    \/ StartBackend
    \/ ProbeFails
    \/ ProbeSucceeds
    \/ WaitGivesUp
    \/ StartProxy
    \/ StartFrontend
    \/ Finish
    \/ Interrupt

SpecStart == InitStart /\ [][NextStart]_vars

\* every curl call of wait_for_service returns, with success or without,
\* and the shell goes on after the loop
SpecStartFair ==
    /\ SpecStart
    /\ WF_vars(ProbeFails \/ ProbeSucceeds)
    /\ WF_vars(WaitGivesUp)

----------------------------------------------------------------------------
(* stop_services.sh: one run of the script, from any state of the PID      *)
(* files and of the service processes.                                     *)

PidFiles == <<"backend.pid", "proxy.pid", "frontend.pid">>

\* what a PID file can be before the script runs: absent, holding the PID
\* of the running service, holding a PID that no process has, or empty
PidContents == {"absent", "live", "stale", "empty"}

InitStop ==
    /\ version = "proxy-server.js"
    /\ listening = FALSE
    /\ pc = [c \in Conns |-> "idle"]
    /\ inbound = [c \in Conns |-> Undefined]
    /\ req = [c \in Conns |-> Undefined]
    /\ res = [c \in Conns |-> FreshRes]
    /\ gcloudExit = [c \in Conns |-> <<>>]
    /\ token = [c \in Conns |-> Undefined]
    /\ fetchPromise = [c \in Conns |-> "none"]
    /\ outbound = [c \in Conns |-> <<>>]
    /\ response = [c \in Conns |-> Undefined]
    /\ sent = [c \in Conns |-> <<>>]
    /\ gcloudCalls = 0
    /\ arrived = 0
    /\ serial = [c \in Conns |-> 0]
    /\ hist = [c \in Conns |-> <<>>]
    /\ acquiredBy = <<>>
    /\ \E files \in [1..Len(PidFiles) -> PidContents],
          running \in SUBSET (1..Len(Services)),
          cleanLogs \in BOOLEAN :
          /\ \A i \in 1..Len(PidFiles) : files[i] = "live" => i \in running
          /\ script = [pc |-> "kill_pid_file", next |-> 1, files |-> files,
                       before |-> files, running |-> running,
                       cleanLogs |-> cleanLogs, logs |-> TRUE,
                       exit |-> Undefined]

\* kill_pid_file "<service>.pid" "<Service>", called for the three services
\* in turn
kill_pid_file ==
    /\ script.pc = "kill_pid_file"
    /\ LET i == script.next
           sc == IF script.files[i] \in {"live", "stale"}
                 THEN [script EXCEPT !.running = @ \ {i},
                                     !.files[i] = "absent"]
                 ELSE script
       IN script' = IF i < Len(PidFiles) THEN [sc EXCEPT !.next = i + 1]
                    ELSE [sc EXCEPT !.pc = "pkill"]
    /\ UNCHANGED relayVars

\* pkill -f of the four command patterns: the processes get SIGTERM, and
\* some may still be alive afterwards
pkill ==
    /\ script.pc = "pkill"
    /\ \E alive \in SUBSET script.running :
          script' = [script EXCEPT !.running = alive, !.pc = "kill_port"]
    /\ UNCHANGED relayVars

\* kill_port 3000, 4000, 8000: kill -9 of what listens there
kill_port ==
    /\ script.pc = "kill_port"
    /\ script' = [script EXCEPT !.running = {}, !.pc = "verify"]
    /\ UNCHANGED relayVars

\* sleep 2 and the loop over the ports
VerifyPorts ==
    /\ script.pc = "verify"
    /\ script' = [script EXCEPT !.pc = "logs"]
    /\ UNCHANGED relayVars

\* the log files are removed on --clean-logs, and main returns
StopDone ==
    /\ script.pc = "logs"
    /\ script' = [script EXCEPT !.logs = ~script.cleanLogs, !.pc = "done",
                                !.exit = Some(0)]
    /\ UNCHANGED relayVars

NextStop ==
    \/ kill_pid_file
    \/ pkill
    \/ kill_port
    \/ VerifyPorts
    \/ StopDone

SpecStop == InitStop /\ [][NextStop]_vars

----------------------------------------------------------------------------
(* Vocabulary of the properties *)

\* connections that carry a request at the moment
Busy == {c \in DOMAIN pc : IsDefined(inbound[c])}

\* the Content-Type the client sent on c (Undefined when it sent none)
ClientType(c) == ObjGet(The(inbound[c]).rawHeaders, "Content-Type")

\* the media type of the client's body is application/json, in any letter
\* case and with any parameters
ClientSentJson(c) == IsDefined(ClientType(c)) /\ TypeIsJson(The(ClientType(c)))

\* the request on c went into the /api handler
ReachedHandler(c) == pc[c] = "gcloud" \/ gcloudExit[c] # <<>>

\* positions of the authorization lines of an outbound request
AuthLines(o) ==
    {i \in 1..Len(o.headers) : Lower(o.headers[i].k) = "authorization"}

\* the request on c went through phase e
HasPhase(c, e) == \E i \in 1..Len(hist[c]) : hist[c][i].e = e

\* the number of gcloud invocations made when the request on c entered
\* phase e
PhaseCalls(c, e) ==
    hist[c][CHOOSE i \in 1..Len(hist[c]) : hist[c][i].e = e].calls

\* the names of the phases the request on c went through, in order
PhaseNames(c) == [i \in 1..Len(hist[c]) |-> hist[c][i].e]

\* the phases of a relayed request
Phases == <<"Received", "CredentialAcquired", "Dispatched",
            "ResponseTranslated", "Sent">>

IsPrefix(s, t) == Len(s) <= Len(t) /\ \A i \in 1..Len(s) : s[i] = t[i]

\* h follows the phases in order, or leaves them once for Error before Sent
Linear(h) ==
    \/ IsPrefix(h, Phases)
    \/ /\ Len(h) \in 2..Len(Phases)
       /\ h[Len(h)] = "Error"
       /\ IsPrefix(SubSeq(h, 1, Len(h) - 1), Phases)

\* the request on c is in a terminal phase
Ended(c) == hist[c] # <<>> /\ hist[c][Len(hist[c])].e \in {"Sent", "Error"}

\* the handling of the request on c is linear, has written one response when
\* it has ended and none before, and ends in Error with 500 and an error body
LinearHandling(c) ==
    /\ Linear(PhaseNames(c))
    /\ Len(sent[c]) = (IF Ended(c) THEN 1 ELSE 0)
    /\ pc[c] = "sent" <=> Ended(c)
    /\ HasPhase(c, "Error") =>
          /\ sent[c][1].status = 500
          /\ HasErrorField(sent[c][1].body)

\* the gcloud invocations whose token is in an authorization line of o
TokensIn(o) ==
    {n \in 1..gcloudCalls :
        \E j \in AuthLines(o) :
            o.headers[j].v = "Bearer " \o Trim(GcloudStdout(n))}

\* numbers of a JSON value are finite doubles that JavaScript writes back
\* unchanged
Representable(v) == ToJs(v) = v

TypeOK ==
    /\ version \in Versions
    /\ listening \in BOOLEAN
    /\ \A c \in DOMAIN pc :
          /\ pc[c] \in {"idle", "cors", "json", "route", "gcloud", "fetch",
                        "read", "sent"}
          /\ Len(sent[c]) <= 1
          /\ Len(outbound[c]) <= 1

----------------------------------------------------------------------------
(* Properties *)

\* C1: when the gcloud command of a request fails, no request goes to the
\* backend for it and the client gets status 500 with a JSON body that has
\* an error field.
C1_NoCredentialNoForward ==
    \A c \in Busy :
        (\E i \in 1..Len(gcloudExit[c]) : gcloudExit[c][i] # 0) =>
            /\ outbound[c] = <<>>
            /\ Len(sent[c]) = 1
            /\ sent[c][1].status = 500
            /\ HasErrorField(sent[c][1].body)

C1_Witness ==
    \E c \in Busy : gcloudExit[c] = <<1>> /\ Len(sent[c]) = 1

\* C2: for a method other than GET/HEAD and a content type that is not
\* application/json (or none), the outbound body is the inbound bytes.
C2_ByteFidelity ==
    \A c \in Busy : \A i \in 1..Len(outbound[c]) :
        (The(inbound[c]).method \notin {"GET", "HEAD"} /\ ~ClientSentJson(c)) =>
            outbound[c][i].body = Some(The(inbound[c]).body)

\* Lemma for C2: proxy-server.js sends the inbound bytes whenever the content
\* type is absent or is neither matched by the JSON body parser nor by the
\* handler's test.
StreamBranchKeepsBytes ==
    \A c \in Busy : \A i \in 1..Len(outbound[c]) :
        ( /\ version = "proxy-server.js"
          /\ The(inbound[c]).method \notin {"GET", "HEAD"}
          /\ ~ClientSentJson(c)
          /\ IsDefined(ClientType(c)) => ~IncludesAppJson(The(ClientType(c))) ) =>
            outbound[c][i].body = Some(The(inbound[c]).body)

\* C3: the outbound header lines hold exactly one authorization line, in any
\* letter case, and its value is Bearer followed by the token of this request.
C3_OneAuthorization ==
    \A c \in Busy : \A i \in 1..Len(outbound[c]) :
        /\ Cardinality(AuthLines(outbound[c][i])) = 1
        /\ IsDefined(token[c])
        /\ \A j \in AuthLines(outbound[c][i]) :
              outbound[c][i].headers[j].v = "Bearer " \o The(token[c])

\* C4: the outbound request of an inbound GET or HEAD has no body.
C4_GetHeadNoBody ==
    \A c \in Busy : \A i \in 1..Len(outbound[c]) :
        The(inbound[c]).method \in {"GET", "HEAD"} =>
            outbound[c][i].body = Undefined

C4_Witness ==
    \E c \in Busy :
        /\ The(inbound[c]).method \in {"GET", "HEAD"}
        /\ The(inbound[c]).body # ""
        /\ Len(outbound[c]) = 1

\* C5: a relayed request (not GET/HEAD, not a CORS preflight) with content
\* type application/json and a valid JSON body B, whose credential was
\* acquired, leads to one outbound request whose body denotes the value B.
C5_JsonRoundTrip ==
    \A c \in Busy :
        ( /\ pc[c] = "sent"
          /\ The(inbound[c]).method \notin {"GET", "HEAD", "OPTIONS"}
          /\ MountMatches(The(inbound[c]).originalUrl)
          /\ IsDefined(ClientType(c))
          /\ The(ClientType(c)) \in {CtJson, CtJsonUtf8}
          /\ JsonValue(The(inbound[c]).body) # NotJson
          /\ gcloudExit[c] # <<1>> ) =>
            /\ Len(outbound[c]) = 1
            /\ IsDefined(outbound[c][1].body)
            /\ JsonValue(The(outbound[c][1].body)) = JsonValue(The(inbound[c]).body)

\* C6: once the backend has returned a response, the status the client gets
\* is the status of the backend.
C6_StatusPassThrough ==
    \A c \in Busy :
        ( /\ pc[c] = "sent"
          /\ IsDefined(response[c])
          /\ IsDefined(The(response[c]).body) ) =>
            /\ Len(sent[c]) = 1
            /\ sent[c][1].status = The(response[c]).status

\* C7, as stated: a backend response with a JSON content type and a JSON
\* body J reaches the client with the status of the backend and a body that
\* denotes J.
C7_JsonPassThroughAny ==
    \A c \in Busy :
        ( /\ pc[c] = "sent"
          /\ IsDefined(response[c])
          /\ The(response[c]).ctype = Some(CtJson)
          /\ IsDefined(The(response[c]).body)
          /\ JsonValue(The(The(response[c]).body)) # NotJson ) =>
            /\ Len(sent[c]) = 1
            /\ sent[c][1].status = The(response[c]).status
            /\ ClientJson(sent[c][1].body) = JsonValue(The(The(response[c]).body))

\* C7, amended: the same for every J whose numbers JavaScript reads and
\* writes back unchanged.
C7_JsonPassThrough ==
    \A c \in Busy :
        ( /\ pc[c] = "sent"
          /\ IsDefined(response[c])
          /\ The(response[c]).ctype = Some(CtJson)
          /\ IsDefined(The(response[c]).body)
          /\ JsonValue(The(The(response[c]).body)) # NotJson
          /\ Representable(JsonValue(The(The(response[c]).body))) ) =>
            /\ Len(sent[c]) = 1
            /\ sent[c][1].status = The(response[c]).status
            /\ ClientJson(sent[c][1].body) = JsonValue(The(The(response[c]).body))
            /\ ~HasErrorField(sent[c][1].body)

C7_Witness ==
    \E c \in Busy :
        /\ pc[c] = "sent"
        /\ IsDefined(response[c])
        /\ The(response[c]).status = 404
        /\ The(response[c]).ctype = Some(CtJson)
        /\ The(response[c]).body = Some("{\"detail\": \"not found\"}")
        /\ Len(sent[c]) = 1

\* C8: when the outbound call fails at the network level the client gets
\* exactly one response, 500 with an error field, the request was sent to
\* the backend once, and the process goes on listening.
C8_NetworkFailure ==
    \A c \in Busy :
        fetchPromise[c] = "rejected" =>
            /\ Len(sent[c]) = 1
            /\ sent[c][1].status = 500
            /\ HasErrorField(sent[c][1].body)
            /\ Len(outbound[c]) = 1
            /\ listening

C8_Witness ==
    \E c \in Busy :
        /\ fetchPromise[c] = "rejected"
        /\ Len(sent[c]) = 1
        /\ The(inbound[c]).method = "POST"

\* C9, as stated: every response to a request under /api that is not the
\* forwarding of a backend response has status 500 and a JSON object body
\* with an error field.
C9_RelayResponsesAre500 ==
    \A c \in Busy : \A i \in 1..Len(sent[c]) :
        ( /\ MountMatches(The(inbound[c]).originalUrl)
          /\ sent[c][i].by # "forward" ) =>
            /\ sent[c][i].status = 500
            /\ HasErrorField(sent[c][i].body)

\* C9, amended: every response to a request that went into the /api handler
\* either forwards a backend response or has status 500 and a JSON object
\* body with an error field; a request under /api answered before the
\* handler (CORS preflight, rejected JSON body) gets status 204 or 400 and
\* no error object.
C9_HandlerErrorsAre500 ==
    \A c \in Busy : \A i \in 1..Len(sent[c]) :
        MountMatches(The(inbound[c]).originalUrl) =>
            IF ReachedHandler(c)
            THEN \/ /\ sent[c][i].by = "forward"
                    /\ IsDefined(response[c])
                    /\ IsDefined(The(response[c]).body)
                 \/ /\ sent[c][i].status = 500
                    /\ HasErrorField(sent[c][i].body)
            ELSE /\ sent[c][i].status \in {204, 400}
                 /\ sent[c][i].status = 204 <=> The(inbound[c]).method = "OPTIONS"
                 /\ ~HasErrorField(sent[c][i].body)

C9_Witness ==
    \E c \in Busy :
        /\ Len(sent[c]) = 1
        /\ IsDefined(response[c])
        /\ The(response[c]).status = 404
        /\ sent[c][1].status = 500
        /\ sent[c][1].by = "catch"

\* C10: no header line of an outbound request is a host header.
C10_NoHost ==
    \A c \in Busy : \A i \in 1..Len(outbound[c]) :
        \A j \in 1..Len(outbound[c][i].headers) :
            Lower(outbound[c][i].headers[j].k) # "host"

C10_Witness ==
    \E c \in Busy :
        /\ \E j \in 1..Len(The(inbound[c]).rawHeaders) :
              The(inbound[c]).rawHeaders[j].k = "HOST"
        /\ Len(outbound[c]) = 1

\* C11: the gcloud token in the authorization lines of an outbound request
\* comes from one invocation, which ran for this request, after the request
\* arrived and before its outbound request was issued; requests in flight at
\* the same time never carry the same token.
C11_FreshToken ==
    \A c \in Busy : \A i \in 1..Len(outbound[c]) :
        /\ Cardinality(TokensIn(outbound[c][i])) = 1
        /\ \A n \in TokensIn(outbound[c][i]) :
              /\ acquiredBy[n] = serial[c]
              /\ PhaseCalls(c, "Received") < n
              /\ n <= PhaseCalls(c, "Dispatched")
              /\ \A d \in Busy \ {c} : \A k \in 1..Len(outbound[d]) :
                    n \notin TokensIn(outbound[d][k])

\* two requests in flight together, the later arrival dispatched first
C11_Witness ==
    \E c \in Busy, d \in Busy :
        /\ serial[c] < serial[d]
        /\ Len(outbound[c]) = 1 /\ Len(outbound[d]) = 1
        /\ TokensIn(outbound[c][1]) = {2}
        /\ TokensIn(outbound[d][1]) = {1}

\* what a request target becomes when one leading /api is taken away; a
\* target that does not begin with /api stays as it is
ExpectedTarget(target) ==
    CASE target = "/api/upload" -> "/upload"
      [] target = "/api/api/x" -> "/api/x"
      [] target = "/api/ping?x=1" -> "/ping?x=1"
      [] target = "/api" -> ""
      [] OTHER -> target

\* C12: the URL of an outbound request is the backend base URL followed by
\* the inbound path and query without one leading /api; a target the mount
\* accepts that does not begin with /api (/API/ping) is passed on unchanged,
\* and the process goes on.
C12_PathRewrite ==
    \A c \in Busy : \A i \in 1..Len(outbound[c]) :
        /\ outbound[c][i].url =
              BackendUrl(version) \o ExpectedTarget(Join(The(inbound[c]).originalUrl))
        /\ listening

C12_Witness ==
    \E c \in Busy :
        /\ Join(The(inbound[c]).originalUrl) = "/api/api/x"
        /\ Len(outbound[c]) = 1
        /\ outbound[c][1].url = "http://localhost:8000/api/x"

\* C13, as stated: the handling of every inbound request goes through
\* Received, CredentialAcquired, Dispatched, ResponseTranslated, Sent in
\* this order, or leaves the order once for Error (500, error body); one
\* response is written per request.
C13_EveryRequestLinear == \A c \in Busy : LinearHandling(c)

\* C13, amended: the same for every request that enters the /api handler.  A
\* request answered before the handler (CORS preflight, rejected JSON body,
\* path outside /api) goes from Received to Sent with one response and no
\* credential.
C13_HandlerRequestsLinear ==
    \A c \in Busy :
        IF ReachedHandler(c) THEN LinearHandling(c)
        ELSE /\ PhaseNames(c) \in {<<"Received">>, <<"Received", "Sent">>}
             /\ Len(sent[c]) = (IF Ended(c) THEN 1 ELSE 0)
             /\ pc[c] = "sent" <=> Ended(c)
             /\ \A i \in 1..Len(sent[c]) :
                   sent[c][i].by \in {"cors", "express.json", "finalhandler"}
             /\ gcloudExit[c] = <<>> /\ outbound[c] = <<>>

C13_Witness ==
    \E c \in Busy :
        /\ PhaseNames(c) = Phases
        /\ Len(sent[c]) = 1
        /\ sent[c][1].by = "forward"

ReqOf(in) ==
    LET headers == NodeHeaders(in.rawHeaders, <<>>)
        ct == ObjGet(headers, "content-type")
        parses == /\ in.body # ""
                  /\ IsDefined(ct) /\ TypeIsJson(The(ct))
    IN [method |-> in.method, originalUrl |-> in.originalUrl,
        headers |-> headers,
        stream |-> IF parses THEN "" ELSE in.body,
        body |-> IF parses THEN JSONparse(in.body) ELSE Some(JObj(<<>>))]

\* the response that the handler makes of a backend response alone, for a
\* request with this method
ResponseOf(method, resp) ==
    LET r == [status |-> resp.status, ctype |-> Undefined,
              acao |-> Some(CORS_ORIGIN), acac |-> Some("true")]
        text == The(resp.body)
        err == ResJson([r EXCEPT !.status = 500], method,
                       JObj(<<KV("error", JStr(MsgBadJson))>>), "catch")
    IN IF IsDefined(resp.ctype) /\ IncludesAppJson(The(resp.ctype))
       THEN IF IsDefined(JSONparse(text))
            THEN ResJson(r, method, The(JSONparse(text)), "forward")
            ELSE err
       ELSE ResSend(r, method, text, "forward")

\* the outbound request and the response of c are functions of its own
\* inbound request, its own token and its own backend response
Determined(c) ==
    /\ \A i \in 1..Len(outbound[c]) :
          /\ IsDefined(token[c])
          /\ \E n \in 1..Len(acquiredBy) :
                /\ acquiredBy[n] = serial[c]
                /\ The(token[c]) = Trim(GcloudStdout(n))
          /\ outbound[c][i] =
                Outbound(version, ReqOf(The(inbound[c])), The(token[c]))
    /\ (IsDefined(response[c]) /\ IsDefined(The(response[c]).body)) =>
          sent[c] = <<ResponseOf(The(inbound[c]).method, The(response[c]))>>

\* a step changes the state of one request at most
OneRequestStep ==
    \E c \in DOMAIN pc : \A d \in DOMAIN pc \ {c} :
        /\ pc'[d] = pc[d] /\ inbound'[d] = inbound[d] /\ req'[d] = req[d]
        /\ res'[d] = res[d] /\ token'[d] = token[d]
        /\ gcloudExit'[d] = gcloudExit[d]
        /\ fetchPromise'[d] = fetchPromise[d]
        /\ outbound'[d] = outbound[d] /\ response'[d] = response[d]
        /\ sent'[d] = sent[d] /\ serial'[d] = serial[d] /\ hist'[d] = hist[d]

\* C15: with requests in flight together, in every interleaving, the
\* outbound request and the client response of a request are determined by
\* its own inbound request, token and backend response, and no step of one
\* request changes the state of another.
C15_Isolation ==
    /\ [](\A c \in Busy : Determined(c))
    /\ [][OneRequestStep]_vars

\* two requests answered while both are in flight, with different backend
\* responses
C15_Witness ==
    \E c \in Busy, d \in Busy :
        /\ c # d
        /\ Len(sent[c]) = 1 /\ Len(sent[d]) = 1
        /\ sent[c][1].by = "forward" /\ sent[d][1].by = "forward"
        /\ The(response[c]).status = 200 /\ The(response[d]).status = 404
        /\ The(inbound[c]).method = "POST" /\ The(inbound[d]).method = "GET"

\* a step of the handling of the request on b
StepOf(b) ==
    \/ Cors(b) \/ ExpressJson(b) \/ NotFound(b) \/ HandlerStart(b)
    \/ HandlerNoCredential(b) \/ HandlerDispatch(b) \/ FetchRejects(b)
    \/ \E st \in ConcStatuses, ct \in ConcTypes : FetchResolves(b, st, ct)
    \/ \E text \in ConcBodies : BodyArrives(b, text)
    \/ BodyAborts(b)

\* the request on b has arrived and is not answered yet
InFlight(b) == pc[b] \in {"cors", "json", "route", "gcloud", "fetch", "read"}

\* C16: while a request A is in the credential acquisition, in the outbound
\* call or in the reading of the backend body, every other request in flight
\* can take a step of its own handling.
C16_BothSuspend ==
    \A a \in Busy, b \in Busy :
        (a # b /\ pc[a] \in {"gcloud", "fetch", "read"} /\ InFlight(b)) =>
            ENABLED StepOf(b)

\* For C16: the outbound call and the reading of the backend body are
\* suspension points, the credential acquisition is not; while A is in it no
\* step of another request is possible.
FetchSuspendsGcloudBlocks ==
    \A a \in Busy, b \in Busy :
        (a # b /\ InFlight(b)) =>
            /\ (pc[a] \in {"fetch", "read"} /\ pc[b] # "gcloud") => ENABLED StepOf(b)
            /\ pc[a] = "gcloud" => ~ENABLED StepOf(b)

\* the Origin header the client sent on c (Undefined when it sent none)
ClientOrigin(c) == ObjGet(The(inbound[c]).rawHeaders, "Origin")

\* C17: no response to a request from an origin other than the configured
\* one names that origin in Access-Control-Allow-Origin; every response to a
\* request from http://localhost:3000 names this origin and allows
\* credentials.
C17_CorsOrigin ==
    \A c \in Busy : \A i \in 1..Len(sent[c]) :
        /\ (IsDefined(ClientOrigin(c)) /\ ClientOrigin(c) # Some(CORS_ORIGIN)) =>
              sent[c][i].acao # ClientOrigin(c)
        /\ ClientOrigin(c) = Some(CORS_ORIGIN) =>
              /\ sent[c][i].acao = Some(CORS_ORIGIN)
              /\ sent[c][i].acac = Some("true")

\* a preflight from the foreign origin was answered
C17_Witness ==
    \E c \in Busy :
        /\ ClientOrigin(c) = Some("http://evil.example")
        /\ The(inbound[c]).method = "OPTIONS"
        /\ Len(sent[c]) = 1
        /\ sent[c][1].acao = Some("http://localhost:3000")

\* the media type of a Content-Type value: no parameters, lower case
MediaType(ct) ==
    CASE ct \in {CtJson, CtJsonUtf8, CtJsonUpper} -> "application/json"
      [] ct = CtJsonPatch -> "application/json-patch+json"
      [] ct = CtMultipart -> "multipart/form-data"
      [] ct = CtCsv -> "text/csv"
      [] ct = "text/html; charset=utf-8" -> "text/html"
      [] OTHER -> ct

\* two optional Content-Type values declare the same media type
SameType(a, b) ==
    IF IsDefined(a) /\ IsDefined(b) THEN MediaType(The(a)) = MediaType(The(b))
    ELSE a = b

\* C18: a forwarded backend response reaches the client with the content
\* type the backend declared, and when that type is not JSON with the body
\* unchanged.
C18_ContentTypeKept ==
    \A c \in Busy : \A i \in 1..Len(sent[c]) :
        sent[c][i].by = "forward" =>
            /\ SameType(sent[c][i].ctype, The(response[c]).ctype)
            /\ ~SameType(The(response[c]).ctype, Some(CtJson)) =>
                  sent[c][i].body = The(The(response[c]).body)

\* For C18: what the client is told instead.  A forwarded response is
\* declared application/json when the backend's type contains
\* application/json and text/html otherwise (none for 204); a body that is
\* not parsed as JSON is unchanged.
ForwardedTypeIsJsonOrHtml ==
    \A c \in Busy : \A i \in 1..Len(sent[c]) :
        sent[c][i].by = "forward" =>
            LET bt == The(response[c]).ctype
                json == IsDefined(bt) /\ IncludesAppJson(The(bt))
            IN /\ sent[c][i].ctype =
                     IF sent[c][i].status = 204 THEN Undefined
                     ELSE IF json THEN Some("application/json; charset=utf-8")
                     ELSE Some("text/html; charset=utf-8")
               /\ (~json /\ sent[c][i].status # 204) =>
                     sent[c][i].body = The(The(response[c]).body)

\* header line l, as the client sent it, is not a host or authorization line
Copied(l) == Lower(l.k) \notin {"host", "authorization"}

\* two header lines have the same name (in any letter case) and value
SameLine(l, m) == Lower(l.k) = Lower(m.k) /\ l.v = m.v

Launched == {script.launched[i] : i \in 1..Len(script.launched)}

\* C20, as stated: the script starts backend, proxy, frontend in this
\* order, each only after the readiness probe of the one before it
\* succeeded; when the backend does not answer within the probe limit the
\* script exits with 1 and starts neither proxy nor frontend.
C20_EachAfterReady ==
    /\ IsPrefix(script.launched, Services)
    /\ "proxy" \in Launched => "backend" \in script.answered
    /\ "frontend" \in Launched => "proxy" \in script.answered
    /\ "backend" \in script.failed =>
          /\ script.exit = Some(1)
          /\ script.launched = <<"backend">>

\* C20, amended: the order holds, and the proxy is started only after the
\* probe of the backend succeeded; the frontend is started after the probe
\* of the proxy succeeded or after max_attempts probes of it failed.  When
\* the backend does not answer within the limit the script exits with 1 and
\* starts neither proxy nor frontend.
C20_BackendGatesProxy ==
    /\ IsPrefix(script.launched, Services)
    /\ "proxy" \in Launched => "backend" \in script.answered
    /\ "frontend" \in Launched =>
          "proxy" \in (script.answered \cup script.failed)
    /\ script.answered \cap script.failed = {}
    /\ "backend" \in script.failed =>
          /\ script.exit = Some(1)
          /\ script.launched = <<"backend">>

\* the script ended with 0 although the proxy never answered
C20_Witness ==
    /\ script.launched = Services
    /\ "proxy" \in script.failed
    /\ script.exit = Some(0)

\* C21: when stop_services.sh has run to its end, none of backend.pid,
\* proxy.pid and frontend.pid exists, whatever the files were before.
C21_NoPidFileLeft ==
    script.pc = "done" =>
        \A i \in 1..Len(PidFiles) : script.files[i] = "absent"

\* For C21: a PID file that held a PID is removed and its process killed; an
\* empty PID file is left where it was.
EmptyPidFileStays ==
    script.pc = "done" =>
        /\ script.running = {}
        /\ \A i \in 1..Len(PidFiles) :
              script.files[i] = (IF script.before[i] = "empty" THEN "empty"
                                 ELSE "absent")

\* C22: when the reading or the parsing of the backend body fails after the
\* status of the backend was copied to res, the client gets one response,
\* with status 500 and an error body, not the status of the backend with
\* the error body.
C22_LateFailureIs500 ==
    \A c \in Busy :
        (IsDefined(response[c]) /\ HasPhase(c, "Error")) =>
            /\ res[c].status = The(response[c]).status
            /\ Len(sent[c]) = 1
            /\ sent[c][1].status = 500
            /\ sent[c][1].by = "catch"
            /\ HasErrorField(sent[c][1].body)

\* a 200 of the backend, declared JSON, whose body is not JSON
C22_Witness ==
    \E c \in Busy :
        /\ IsDefined(response[c])
        /\ The(response[c]).status = 200
        /\ The(response[c]).ctype = Some(CtJson)
        /\ The(response[c]).body = Some("a,b\n1,2")
        /\ res[c].status = 200
        /\ Len(sent[c]) = 1 /\ sent[c][1].status = 500

\* wait_for_service has made at most max_attempts probes; in the loop all
\* probes so far have failed; it has returned 0 right after its first
\* successful probe, or 1 after max_attempts failed probes
WaitCounts ==
    /\ script.probes <= max_attempts
    /\ script.pc = "wait" =>
          /\ script.returned = Undefined
          /\ script.probes = script.attempt - 1
          /\ script.waitingFor \notin (script.answered \cup script.failed)
    /\ script.returned = Some(0) =>
          /\ script.probes \in 1..max_attempts
          /\ script.waitingFor \in script.answered \ script.failed
    /\ script.returned = Some(1) =>
          /\ script.probes = max_attempts
          /\ script.waitingFor \in script.failed \ script.answered

TookJsonBranch(c) ==
    /\ version = "proxy-server.js"
    /\ Len(outbound[c]) = 1
    /\ The(inbound[c]).method \notin {"GET", "HEAD"}
    /\ IsDefined(ClientType(c))
    /\ IncludesAppJson(The(ClientType(c)))

\* C24: whenever the handler takes the JSON branch, the JSON body parser
\* matched the content type too, and req.body is the value parsed from the
\* inbound bytes: a non-empty inbound body is never replaced by the
\* serialization of the parser's default empty object.
C24_BranchMeansParsed ==
    \A c \in Busy :
        TookJsonBranch(c) =>
            /\ TypeIsJson(The(ClientType(c)))
            /\ The(inbound[c]).body # "" =>
                  /\ The(req[c]).body = JSONparse(The(inbound[c]).body)
                  /\ outbound[c][1].body =
                        Some(JSONstringify(The(JSONparse(The(inbound[c]).body))))

\* Lemma for C24: on the content types both tests accept, the JSON branch
\* sends the serialization of the value parsed from the inbound bytes.
BothTestsMeanParsed ==
    \A c \in Busy :
        (TookJsonBranch(c) /\ TypeIsJson(The(ClientType(c)))
           /\ The(inbound[c]).body # "") =>
            /\ The(req[c]).body = JSONparse(The(inbound[c]).body)
            /\ outbound[c][1].body =
                  Some(JSONstringify(The(JSONparse(The(inbound[c]).body))))

\* the body passed to fetch is a string (the result of JSON.stringify), not
\* the inbound stream
BodyIsString(v, rq) ==
    /\ rq.method \notin {"GET", "HEAD"}
    /\ \/ v # "proxy-server.js"
       \/ LET contentType == ObjGet(rq.headers, "content-type")
          IN IsDefined(contentType) /\ IncludesAppJson(The(contentType))

\* Headers.set of node-fetch on header lines: the lines of that name, in any
\* letter case, get the value; without such a line one is appended
SetLine(lines, name, value) ==
    IF \E i \in 1..Len(lines) : Lower(lines[i].k) = Lower(name)
    THEN [i \in 1..Len(lines) |->
            IF Lower(lines[i].k) = Lower(name) THEN KV(lines[i].k, value)
            ELSE lines[i]]
    ELSE Append(lines, KV(name, value))

\* the header lines fetch writes for the request ob: node-fetch sets
\* Content-Length to the byte length of a string body and to 0 for a POST or
\* PUT without body; with a stream body, and without body for the other
\* methods, the lines passed by the handler stay as they are
WireHeaders(ob, isString) ==
    IF IsDefined(ob.body) /\ isString
    THEN SetLine(ob.headers, "Content-Length", DecStr(Len(The(ob.body))))
    ELSE IF ~IsDefined(ob.body) /\ ob.method \in {"POST", "PUT"}
    THEN SetLine(ob.headers, "Content-Length", "0")
    ELSE ob.headers

\* the values of the content-length lines of the outbound request of c
WireLengths(c) ==
    LET lines == WireHeaders(outbound[c][1], BodyIsString(version, The(req[c])))
    IN {lines[i].v : i \in {j \in 1..Len(lines) :
                               Lower(lines[j].k) = "content-length"}}

\* C25: a content-length line of the outbound request is consistent with
\* the body sent: zero (or no line) when the body is omitted, the byte
\* length of the outbound body otherwise.
C25_LengthMatchesBody ==
    \A c \in Busy :
        Len(outbound[c]) = 1 =>
            \A v \in WireLengths(c) :
                IF IsDefined(outbound[c][1].body)
                THEN v = DecStr(Len(The(outbound[c][1].body)))
                ELSE v = "0"

\* Lemma for C25: a string body goes out with its own byte length, whatever
\* length the client announced.
StringBodyLength ==
    \A c \in Busy :
        (Len(outbound[c]) = 1 /\ BodyIsString(version, The(req[c]))) =>
            WireLengths(c) = {DecStr(Len(The(outbound[c][1].body)))}

\* the handler of the request of connection c has ended
HandlerEnded(c) == pc[c] = "sent" /\ ReachedHandler(c)

\* C26: every request that reaches the /api handler eventually receives a
\* response, and no handler path ends without writing one.
C26_EventuallyAnswered ==
    /\ [](\A c \in Conns : HandlerEnded(c) => Len(sent[c]) = 1)
    /\ \A c \in Conns :
          (pc[c] = "gcloud") ~> (HandlerEnded(c) /\ Len(sent[c]) = 1)

\* a request was answered after the credential, the outbound call and the
\* reading of the backend body
C26_Witness ==
    \E c \in Conns :
        /\ HandlerEnded(c)
        /\ HasPhase(c, "ResponseTranslated")
        /\ Len(sent[c]) = 1
        /\ sent[c][1].by # "catch"

\* the version of the relay that is not running
OtherVersion == CHOOSE v \in Versions : v # version

\* the outbound request the other version makes of the request of c and of
\* the same token
OtherOutbound(c) == Outbound(OtherVersion, The(req[c]), The(token[c]))

\* both versions send the same method, URL path and header lines
SameButBody(c) ==
    LET path == Join(StripApi(The(req[c]).originalUrl))
    IN /\ outbound[c][1].method = OtherOutbound(c).method
       /\ outbound[c][1].url = BackendUrl(version) \o path
       /\ OtherOutbound(c).url = BackendUrl(OtherVersion) \o path
       /\ outbound[c][1].headers = OtherOutbound(c).headers

\* both versions send the same body, with the same header lines on the wire
SameBody(c) ==
    /\ outbound[c][1].body = OtherOutbound(c).body
    /\ WireHeaders(outbound[c][1], BodyIsString(version, The(req[c])))
         = WireHeaders(OtherOutbound(c), BodyIsString(OtherVersion, The(req[c])))

\* the client response is made of the backend response by code that is the
\* same in both versions
SameResponse(c) ==
    (IsDefined(response[c]) /\ IsDefined(The(response[c]).body)) =>
        sent[c] = <<ResponseOf(The(inbound[c]).method, The(response[c]))>>

\* C27: on the same inbound request, token and backend behaviour the two
\* versions of the handler produce the same outbound method, URL path and
\* headers and the same client response, and the same outbound body when
\* the method is GET or HEAD or the content type is application/json.
C27_VersionsAgree ==
    \A c \in Busy :
        Len(outbound[c]) = 1 =>
            /\ SameButBody(c)
            /\ SameResponse(c)
            /\ (The(inbound[c]).method \in {"GET", "HEAD"} \/ ClientSentJson(c))
                  => SameBody(c)

\* Lemma for C27: the versions agree on everything but the body, and on the
\* body too when the method is GET or HEAD or the content type passes the
\* handler's own test.
VersionsAgreeOnHandlerJson ==
    \A c \in Busy :
        Len(outbound[c]) = 1 =>
            /\ SameButBody(c)
            /\ SameResponse(c)
            /\ ( \/ The(inbound[c]).method \in {"GET", "HEAD"}
                 \/ /\ IsDefined(ClientType(c))
                    /\ IncludesAppJson(The(ClientType(c))) )
                  => SameBody(c)

====
